---- MODULE Spec2Model ----
(***************************************************************************)
(* MatrixActivityTracker (src/src/lib.ts): the recency cache, the lazily   *)
(* resolved capability flag canUseWhois and the isUserOnline cascade.      *)
(*                                                                         *)
(* isUserOnline is an async function: the code between two awaits runs     *)
(* atomically on the single JavaScript thread, so each action below is one *)
(* such segment (call start, or the resumption after one response).        *)
(* Optional values (undefined in the source) are sequences of length <= 1. *)
(***************************************************************************)
EXTENDS Integers, Sequences, FiniteSets, TLC

VARIABLES
    canUseWhois,     \* lib.ts:46  "null" | "true" | "false"
    lastActiveTime,  \* lib.ts:45  Map userId -> timestamp (partial function)
    opts,            \* lib.ts:47  serverName, defaultOnline, usePresence
    clock,           \* Date.now()
    calls,           \* the isUserOnline invocations, one record per slot
    probesIssued,    \* number of probe requests sent to the Directory Client
    completed,       \* TRUE once some isUserOnline call has returned or failed
    lastWritten      \* per user, the timestamp the last bump/set call wrote

vars == <<canUseWhois, lastActiveTime, opts, clock, calls, probesIssued, completed, lastWritten>>

----------------------------------------------------------------------------
(* Bounds *)

MaxClock == 2        \* Date.now() ranges over 1..MaxClock
MaxThreshold == 2    \* maxTimeMs ranges over 1..MaxThreshold
MaxAgo == 2          \* presence last_active_ago ranges over 0..MaxAgo

----------------------------------------------------------------------------
(* Inputs *)

\* User identifiers and server names are strings; only their split on ":"
\* matters, so each is the sequence of its ":"-separated segments.
LocalUser == <<"@foobar", "example.com">>
RemoteUser == <<"@foobar", "notexample.com">>
Users == {LocalUser, RemoteUser}

ServerName == <<"example.com">>

Thresholds == 1..MaxThreshold
Timestamps == 0..MaxClock
DefaultArgs == {<<>>, <<TRUE>>, <<FALSE>>}

\* Outcomes of doRequest("POST", "/_synapse/admin/v1/send_server_notice"):
\* it returns, or it throws an object whose statusCode may be missing.
ProbeResponses ==
    { [threw |-> FALSE, statusCode |-> <<>>],
      [threw |-> TRUE,  statusCode |-> <<403>>],
      [threw |-> TRUE,  statusCode |-> <<400>>],
      [threw |-> TRUE,  statusCode |-> <<>>] }

\* Outcomes of getPresenceStatusFor(userId): it throws, or returns a Presence.
PresenceStates == {"online", "offline", "unavailable"}
OptAgo == {<<>>} \cup { <<a>> : a \in 0..MaxAgo }
NoPresence == [threw |-> TRUE, currentlyActive |-> FALSE, state |-> "offline", lastActiveAgo |-> <<>>]
PresenceResponses ==
    {NoPresence} \cup
    [threw : {FALSE}, currentlyActive : BOOLEAN, state : PresenceStates, lastActiveAgo : OptAgo]

\* Outcomes of adminApis.whoisUser(userId): it throws, or returns WhoisInfo,
\* whose devices are a sequence of devices, each a sequence of sessions, each
\* a sequence of connections, each connection being its last_seen.
LastSeens == 0..MaxClock
WhoisDevices ==
    { <<>>, << <<>> >>, << << <<>> >> >> }
    \cup { << << <<a>> >> >> : a \in LastSeens }
    \cup { << << <<a, b>> >> >> : a \in LastSeens, b \in LastSeens }
    \cup { << << <<a>>, <<b>> >> >> : a \in LastSeens, b \in LastSeens }
    \cup { << << <<a>> >>, << <<b>> >> >> : a \in LastSeens, b \in LastSeens }
WhoisResponsesOf(devices) ==
    { [threw |-> TRUE, devices |-> <<>>] } \cup [threw : {FALSE}, devices : devices]

----------------------------------------------------------------------------
(* Pure helpers *)

\* JavaScript truthiness of a number (lib.ts:92, 104, 105): 0 is falsy.
Truthy(n) == n # 0

\* Map.get (lib.ts:91): the entry, or undefined.
MapGet(map, key) == IF key \in DOMAIN map THEN <<map[key]>> ELSE <<>>

\* Mutant: a write replaces the whole map by the one entry.
MapSet_Replace(map, key, value) == [k \in {key} |-> value]

\* Mutant: a write never moves an entry back (the later timestamp is kept).
MapSet_KeepLatest(map, key, value) ==
    [k \in DOMAIN map \cup {key} |->
        IF k = key
        THEN (IF key \in DOMAIN map /\ map[key] > value THEN map[key] ELSE value)
        ELSE map[k]]

\* Map.set (lib.ts:63, 67).
MapSet(map, key, value) ==
    [k \in DOMAIN map \cup {key} |-> IF k = key THEN value ELSE map[k]]

\* userId.split(":")[1] (lib.ts:113): the second ":"-separated segment.
SplitSecond(userId) == IF Len(userId) >= 2 THEN <<userId[2]>> ELSE <<>>

\* userId.split(":")[1] !== this.opts.serverName (lib.ts:113).
IsRemote(userId, serverName) == SplitSecond(userId) # serverName

\* Mutant: a probe that succeeds leaves the flag unresolved.
ProbeVerdict_SuccessUnresolved(r) ==
    IF ~r.threw THEN "null"
    ELSE IF r.statusCode # <<403>> THEN "true" ELSE "false"

\* Mutant: the test on the status is inverted (=== 403).
ProbeVerdict_Inverted(r) ==
    IF ~r.threw THEN "false"
    ELSE IF r.statusCode = <<403>> THEN "true" ELSE "false"

\* Mutant: a probe that succeeds resolves the flag to usable.
ProbeVerdict_SuccessUsable(r) ==
    IF ~r.threw THEN "true"
    ELSE IF r.statusCode # <<403>> THEN "true" ELSE "false"

\* The flag value the probe outcome resolves to (lib.ts:82, 85).
ProbeVerdict(r) ==
    IF ~r.threw THEN "false"
    ELSE IF r.statusCode # <<403>> THEN "true" ELSE "false"

\* lib.ts:120: device.sessions.flatMap(session => session.connections)
RECURSIVE DeviceConnections(_)
DeviceConnections(sessions) ==
    IF sessions = <<>> THEN <<>>
    ELSE Head(sessions) \o DeviceConnections(Tail(sessions))

\* lib.ts:120: Object.values(whois.devices).flatMap(device => ...)
RECURSIVE Connections(_)
Connections(devices) ==
    IF devices = <<>> THEN <<>>
    ELSE DeviceConnections(Head(devices)) \o Connections(Tail(devices))

\* Mutant: the comparator sorts the oldest connection first.
CompareLastSeen_Ascending(conA, conB) == conA - conB

\* The comparator of the sort (lib.ts:121): conB.last_seen - conA.last_seen
CompareLastSeen(conA, conB) == conB - conA

\* A stable insertion: x goes before the first element it does not compare
\* greater than.
RECURSIVE InsertDesc(_, _)
InsertDesc(x, sorted) ==
    IF sorted = <<>> THEN <<x>>
    ELSE IF CompareLastSeen(x, Head(sorted)) <= 0 THEN <<x>> \o sorted
    ELSE <<Head(sorted)>> \o InsertDesc(x, Tail(sorted))

\* connections.sort((conA, conB) => conB.last_seen - conA.last_seen) (lib.ts:121)
RECURSIVE SortDesc(_)
SortDesc(seq) ==
    IF seq = <<>> THEN <<>> ELSE InsertDesc(Head(seq), SortDesc(Tail(seq)))

\* Mutant: a supplied false is taken for a missing argument (|| instead of
\* the test against undefined).
ResolveDefault_Falsy(defaultOnline, o) ==
    IF defaultOnline = <<>> \/ ~defaultOnline[1] THEN o.defaultOnline ELSE TRUE

\* lib.ts:77: defaultOnline === undefined ? this.opts.defaultOnline : defaultOnline
ResolveDefault(defaultOnline, o) ==
    IF defaultOnline = <<>> THEN o.defaultOnline ELSE defaultOnline[1]

----------------------------------------------------------------------------
(* Call records *)

Pending == [kind |-> "pending", online |-> FALSE, inactiveMs |-> 0, branch |-> "none"]
Verdict(online, inactiveMs, branch) ==
    [kind |-> "verdict", online |-> online, inactiveMs |-> inactiveMs, branch |-> branch]
Failure(branch) == [kind |-> "error", online |-> FALSE, inactiveMs |-> 0, branch |-> branch]

Idle ==
    [pc |-> "idle", userId |-> LocalUser, maxTimeMs |-> 0,
     defaultArg |-> <<>>, defaultOnline |-> FALSE,
     requests |-> <<>>, probe |-> <<>>, now |-> 0,
     presence |-> <<>>, flagRead |-> <<>>, whois |-> <<>>, result |-> Pending]

Done(c, result) == [c EXCEPT !.pc = "done", !.result = result]

\* lib.ts:113-119: the privileged fallback, up to the who-is request.
Fallback(c, flag, o) ==
    LET c1 == [c EXCEPT !.flagRead = <<flag>>] IN
    IF flag # "true" \/ IsRemote(c.userId, o.serverName)
    THEN Done(c1, Verdict(c.defaultOnline, -1, "default"))
    ELSE [c1 EXCEPT !.pc = "whois", !.requests = Append(@, "whois")]

\* Mutant: the age of the entry is not compared with maxTimeMs.
BumpedRecently_AnyAge(entry, now, maxTimeMs) ==
    entry # <<>> /\ Truthy(entry[1])

\* Mutant: an entry exactly maxTimeMs old still counts as recent (<=).
BumpedRecently_Inclusive(entry, now, maxTimeMs) ==
    entry # <<>> /\ Truthy(entry[1]) /\ now - entry[1] <= maxTimeMs

\* lib.ts:92-93: if (lastActiveTime) { if (now - lastActiveTime < maxTimeMs)
BumpedRecently(entry, now, maxTimeMs) ==
    entry # <<>> /\ Truthy(entry[1]) /\ now - entry[1] < maxTimeMs

\* lib.ts:89-102: the cache check, up to the presence request.
CacheCheck(c, flag, cache, now, o) ==
    LET entry == MapGet(cache, c.userId)
        c1 == [c EXCEPT !.now = now] IN
    IF BumpedRecently(entry, now, c.maxTimeMs)
    THEN Done(c1, Verdict(TRUE, now - entry[1], "cache"))
    ELSE IF o.usePresence
         THEN [c1 EXCEPT !.pc = "presence", !.requests = Append(@, "presence")]
         ELSE Fallback(c1, flag, o)

\* Mutant: the activity state is not looked at.
PresenceOnline_ActiveOnly(r) == r.currentlyActive

\* lib.ts:103: presence.currentlyActive || presence.state === "online"
PresenceOnline(r) == r.currentlyActive \/ r.state = "online"

\* Mutant: a lastActiveAgo equal to maxTimeMs counts as stale (>=).
PresenceStale_Inclusive(r, maxTimeMs) ==
    /\ r.lastActiveAgo # <<>>
    /\ Truthy(r.lastActiveAgo[1])
    /\ r.lastActiveAgo[1] >= maxTimeMs

\* Mutant: the comparison with maxTimeMs is inverted (<).
PresenceStale_Inverted(r, maxTimeMs) ==
    /\ r.lastActiveAgo # <<>>
    /\ Truthy(r.lastActiveAgo[1])
    /\ r.lastActiveAgo[1] < maxTimeMs

\* lib.ts:105: presence.lastActiveAgo && presence.lastActiveAgo > maxTimeMs
PresenceStale(r, maxTimeMs) ==
    /\ r.lastActiveAgo # <<>>
    /\ Truthy(r.lastActiveAgo[1])
    /\ r.lastActiveAgo[1] > maxTimeMs

\* lib.ts:104: presence.lastActiveAgo || 0
AgoOrZero(r) ==
    IF r.lastActiveAgo # <<>> /\ Truthy(r.lastActiveAgo[1]) THEN r.lastActiveAgo[1] ELSE 0

\* Mutant: the failure of the presence request is not caught.
PresenceFailed_Rethrow(c, flag, o) == Done(c, Failure("presence"))

\* lib.ts:109-111: the catch of the presence request; on to the fallback.
PresenceFailed(c, flag, o) == Fallback(c, flag, o)

\* lib.ts:103-111: the presence outcome, then the fallback when inconclusive.
AfterPresence(c, r, flag, o) ==
    LET c1 == [c EXCEPT !.presence = <<r>>] IN
    IF r.threw THEN PresenceFailed(c1, flag, o)
    ELSE IF PresenceOnline(r) THEN Done(c1, Verdict(TRUE, AgoOrZero(r), "presence"))
    ELSE IF PresenceStale(r, c.maxTimeMs) THEN Done(c1, Verdict(FALSE, r.lastActiveAgo[1], "presence"))
    ELSE Fallback(c1, flag, o)

\* Mutant: a failed who-is request is sent again.
WhoisFailed_Retry(c) == [c EXCEPT !.pc = "whois", !.requests = Append(@, "whois")]

\* Mutant: a failed who-is request is caught and answered with the default.
WhoisFailed_Default(c) == Done(c, Verdict(c.defaultOnline, -1, "default"))

\* lib.ts:119: the awaited who-is request rejects; nothing catches it.
WhoisFailed(c) == Done(c, Failure("whois"))

\* Mutant: no connection at all is answered with the default.
NoBestConnection_Default(c) == Done(c, Verdict(c.defaultOnline, -1, "default"))

\* lib.ts:121-122: [0] of an empty array is undefined, and reading
\* bestConnection.last_seen throws a TypeError.
NoBestConnection(c) == Done(c, Failure("whois"))

\* lib.ts:119-122: the who-is outcome.
AfterWhois(c, r) ==
    LET c1 == [c EXCEPT !.whois = <<r>>]
        sorted == SortDesc(Connections(r.devices)) IN
    IF r.threw THEN WhoisFailed(c1)
    ELSE IF sorted = <<>> THEN NoBestConnection(c1)
    ELSE Done(c1, Verdict(c.now - sorted[1] < c.maxTimeMs, c.now - sorted[1], "whois"))

\* Mutant: a probe failure other than the 403 rejection is thrown on.
AfterProbe_Rethrow(c, r, cache, now, o) ==
    IF r.threw /\ r.statusCode # <<403>>
    THEN Done([c EXCEPT !.probe = <<r>>], Failure("probe"))
    ELSE CacheCheck([c EXCEPT !.probe = <<r>>], ProbeVerdict(r), cache, now, o)

\* lib.ts:81-87: the probe outcome sets the flag; the call goes on either way.
AfterProbe(c, r, cache, now, o) ==
    CacheCheck([c EXCEPT !.probe = <<r>>], ProbeVerdict(r), cache, now, o)

----------------------------------------------------------------------------
(* Operations *)

Slots == DOMAIN calls

\* lib.ts:62-64
bumpLastActiveTime(userId) ==
    /\ lastActiveTime' = MapSet(lastActiveTime, userId, clock)
    /\ lastWritten' = [k \in DOMAIN lastWritten \cup {userId} |->
                          IF k = userId THEN clock ELSE lastWritten[k]]
    /\ UNCHANGED <<canUseWhois, opts, clock, calls, probesIssued, completed>>

\* lib.ts:66-68
setLastActiveTime(userId, ts) ==
    /\ lastActiveTime' = MapSet(lastActiveTime, userId, ts)
    /\ lastWritten' = [k \in DOMAIN lastWritten \cup {userId} |->
                          IF k = userId THEN ts ELSE lastWritten[k]]
    /\ UNCHANGED <<canUseWhois, opts, clock, calls, probesIssued, completed>>

\* lib.ts:76-81 (and on to the first await when the flag is already known)
isUserOnline(s, userId, maxTimeMs, defaultOnline) ==
    /\ calls[s].pc = "idle"
    /\ LET c == [Idle EXCEPT !.userId = userId, !.maxTimeMs = maxTimeMs,
                             !.defaultArg = defaultOnline,
                             !.defaultOnline = ResolveDefault(defaultOnline, opts)]
       IN IF canUseWhois = "null"
          THEN /\ calls' = [calls EXCEPT ![s] = [c EXCEPT !.pc = "probe", !.requests = <<"probe">>]]
               /\ probesIssued' = probesIssued + 1
          ELSE /\ calls' = [calls EXCEPT ![s] = CacheCheck(c, canUseWhois, lastActiveTime, clock, opts)]
               /\ UNCHANGED probesIssued
    /\ completed' = (completed \/ calls'[s].pc = "done")
    /\ UNCHANGED <<canUseWhois, lastActiveTime, opts, clock, lastWritten>>

\* lib.ts:81-87, then on from the cache check
ProbeResponse(s, r) ==
    /\ calls[s].pc = "probe"
    /\ canUseWhois' = ProbeVerdict(r)
    /\ calls' = [calls EXCEPT ![s] = AfterProbe(calls[s], r, lastActiveTime, clock, opts)]
    /\ completed' = (completed \/ calls'[s].pc = "done")
    /\ UNCHANGED <<lastActiveTime, opts, clock, probesIssued, lastWritten>>

\* lib.ts:102-117
PresenceResponse(s, r) ==
    /\ calls[s].pc = "presence"
    /\ calls' = [calls EXCEPT ![s] = AfterPresence(calls[s], r, canUseWhois, opts)]
    /\ completed' = (completed \/ calls'[s].pc = "done")
    /\ UNCHANGED <<canUseWhois, lastActiveTime, opts, clock, probesIssued, lastWritten>>

\* lib.ts:119-122
WhoisResponse(s, r) ==
    /\ calls[s].pc = "whois"
    /\ calls' = [calls EXCEPT ![s] = AfterWhois(calls[s], r)]
    /\ completed' = TRUE
    /\ UNCHANGED <<canUseWhois, lastActiveTime, opts, clock, probesIssued, lastWritten>>

\* The caller takes the settled promise; the slot is free for the next call.
Settle(s) ==
    /\ calls[s].pc = "done"
    /\ calls' = [calls EXCEPT ![s] = Idle]
    /\ UNCHANGED <<canUseWhois, lastActiveTime, opts, clock, probesIssued, completed, lastWritten>>

\* Date.now() advances.
Tick ==
    /\ clock < MaxClock
    /\ clock' = clock + 1
    /\ UNCHANGED <<canUseWhois, lastActiveTime, opts, calls, probesIssued, completed, lastWritten>>

----------------------------------------------------------------------------
(* Specifications *)

\* lib.ts:46-52: the state after construction.
InitTracker(slots) ==
    /\ canUseWhois = "null"
    /\ lastActiveTime = <<>>
    /\ opts \in [serverName : {ServerName}, defaultOnline : BOOLEAN, usePresence : BOOLEAN]
    /\ clock = 1
    /\ calls = [s \in slots |-> Idle]
    /\ probesIssued = 0
    /\ completed = FALSE
    /\ lastWritten = <<>>

\* The writes to the cache and the passing of time.
Environment ==
    \/ \E u \in Users : bumpLastActiveTime(u)
    \/ \E u \in Users, ts \in Timestamps : setLastActiveTime(u, ts)
    \/ Tick

\* One isUserOnline call at a time: each completes before the next starts.
\* Who-is records carry at most one connection.
SingleWhois == WhoisResponsesOf({ d \in WhoisDevices : Len(Connections(d)) <= 1 })

\* The tracker defaults to offline; a call gets the other default, and this
\* one again, through its defaultOnline argument.
Init == InitTracker({1}) /\ opts.defaultOnline = FALSE

Next ==
    \/ Environment
    \/ \E s \in Slots, u \in Users, m \in Thresholds, d \in DefaultArgs : isUserOnline(s, u, m, d)
    \/ \E s \in Slots, r \in ProbeResponses : ProbeResponse(s, r)
    \/ \E s \in Slots, r \in PresenceResponses : PresenceResponse(s, r)
    \/ \E s \in Slots, r \in SingleWhois : WhoisResponse(s, r)
    \/ \E s \in Slots : Settle(s)

Spec == Init /\ [][Next]_vars

\* Two isUserOnline calls may be in flight together, for one local user and
\* one threshold, with the cache written for that user only.
RacePresence ==
    { r \in PresenceResponses :
        r.threw \/ (~r.currentlyActive /\ r.state # "unavailable" /\ r.lastActiveAgo = <<MaxAgo>>) }
RaceWhois == WhoisResponsesOf({ << << <<1>> >> >> })

InitRace == InitTracker({1, 2}) /\ opts.defaultOnline = FALSE

NextRace ==
    \/ bumpLastActiveTime(LocalUser)
    \/ Tick
    \/ \E s \in Slots : isUserOnline(s, LocalUser, MaxThreshold, <<>>)
    \/ \E s \in Slots, r \in ProbeResponses : ProbeResponse(s, r)
    \/ \E s \in Slots, r \in RacePresence : PresenceResponse(s, r)
    \/ \E s \in Slots, r \in RaceWhois : WhoisResponse(s, r)
    \/ \E s \in Slots : Settle(s)

SpecRace == InitRace /\ [][NextRace]_vars

\* Two calls may be in flight together, and the Directory Client answers
\* every request it was sent: the response to the request a call waits for
\* is not put off for ever.
Responds(s) ==
    \/ \E r \in ProbeResponses : ProbeResponse(s, r)
    \/ \E r \in RacePresence : PresenceResponse(s, r)
    \/ \E r \in RaceWhois : WhoisResponse(s, r)

SpecLive == InitRace /\ [][NextRace]_vars /\ \A s \in {1, 2} : WF_vars(Responds(s))

\* Sequential calls for the local user whose who-is records take every shape
\* of WhoisDevices: several devices, sessions and connections, in any order.
\* The cache stays empty and presence, where enabled, fails, so that every
\* call of an admin reaches the who-is request.
InitWhois == InitTracker({1}) /\ opts.defaultOnline = FALSE

NextWhois ==
    \/ Tick
    \/ \E s \in Slots, m \in Thresholds : isUserOnline(s, LocalUser, m, <<>>)
    \/ \E s \in Slots, r \in ProbeResponses : ProbeResponse(s, r)
    \/ \E s \in Slots : PresenceResponse(s, NoPresence)
    \/ \E s \in Slots, r \in WhoisResponsesOf(WhoisDevices) : WhoisResponse(s, r)
    \/ \E s \in Slots : Settle(s)

SpecWhois == InitWhois /\ [][NextWhois]_vars

\* Sequential calls on a tracker of either default, each made with the
\* defaultOnline argument true, false or left out. The cache is written by
\* bumps of the local user only.
InitDefault == InitTracker({1})

NextDefault ==
    \/ bumpLastActiveTime(LocalUser)
    \/ Tick
    \/ \E s \in Slots, u \in Users, m \in Thresholds, d \in DefaultArgs : isUserOnline(s, u, m, d)
    \/ \E s \in Slots, r \in ProbeResponses : ProbeResponse(s, r)
    \/ \E s \in Slots, r \in PresenceResponses : PresenceResponse(s, r)
    \/ \E s \in Slots, r \in SingleWhois : WhoisResponse(s, r)
    \/ \E s \in Slots : Settle(s)

SpecDefault == InitDefault /\ [][NextDefault]_vars

\* Server names with a port: the tracker is configured with or without one,
\* and the users asked about live on either server.
PortUser == <<"@foobar", "example.com", "8448">>
PortServerName == <<"example.com", "8448">>

InitPorts ==
    /\ canUseWhois = "null"
    /\ lastActiveTime = <<>>
    /\ opts \in [serverName : {ServerName, PortServerName}, defaultOnline : {FALSE},
                 usePresence : BOOLEAN]
    /\ clock = 1
    /\ calls = [s \in {1} |-> Idle]
    /\ probesIssued = 0
    /\ completed = FALSE
    /\ lastWritten = <<>>

NextPorts ==
    \/ \E u \in {LocalUser, PortUser} : bumpLastActiveTime(u)
    \/ Tick
    \/ \E s \in Slots, u \in {LocalUser, PortUser} : isUserOnline(s, u, MaxThreshold, <<>>)
    \/ \E s \in Slots, r \in ProbeResponses : ProbeResponse(s, r)
    \/ \E s \in Slots, r \in RacePresence : PresenceResponse(s, r)
    \/ \E s \in Slots, r \in RaceWhois : WhoisResponse(s, r)
    \/ \E s \in Slots : Settle(s)

SpecPorts == InitPorts /\ [][NextPorts]_vars

TypeOK ==
    /\ canUseWhois \in {"null", "true", "false"}
    /\ clock \in 1..MaxClock
    /\ DOMAIN lastWritten = DOMAIN lastActiveTime
    /\ \A s \in Slots :
        /\ calls[s].pc \in {"idle", "probe", "presence", "whois", "done"}
        /\ calls[s].defaultArg \in DefaultArgs
        /\ calls[s].defaultOnline \in BOOLEAN

----------------------------------------------------------------------------
(* Vocabulary of the properties *)

Range(seq) == { seq[i] : i \in DOMAIN seq }
Requested(c, what) == what \in Range(c.requests)

\* The step in which call s reads the clock and the cache (lib.ts:90-91).
CacheCheckStep(s) ==
    /\ calls[s].pc \in {"idle", "probe"}
    /\ calls'[s].pc \notin {"idle", "probe"}

\* The step in which call s resolves (returns or fails).
ResolveStep(s) == calls[s].pc # "done" /\ calls'[s].pc = "done"

\* The cache holds an entry for the user that is less than maxTimeMs old.
HoldsFresh(cache, userId, now, maxTimeMs) ==
    userId \in DOMAIN cache /\ now - cache[userId] < maxTimeMs

ProbeRejected(c) == c.probe # <<>> /\ c.probe[1].threw
NotAnAdmin(c) == ProbeRejected(c) /\ c.probe[1].statusCode = <<403>>

Snapshot(c) == c.presence # <<>> /\ ~c.presence[1].threw
PresenceThrew(c) == c.presence # <<>> /\ c.presence[1].threw

\* A verdict that says "not known to be online": presence-offline,
\* who-is-offline or the default.
OverridingVerdict(res) ==
    /\ res.kind = "verdict"
    /\ \/ res.branch = "default"
       \/ res.branch \in {"presence", "whois"} /\ ~res.online

----------------------------------------------------------------------------
(* C1 *)

\* C1: if at the cache check of isUserOnline the cache holds an entry for the
\* user with now - entry < maxTimeMs, the call returns online = true with
\* inactiveMs = now - entry and requests neither presence nor who-is.
C1_FreshEntryShortCircuits ==
    [][\A s \in Slots :
        (CacheCheckStep(s) /\ HoldsFresh(lastActiveTime, calls'[s].userId, clock, calls'[s].maxTimeMs))
        => /\ calls'[s].pc = "done"
           /\ calls'[s].result =
                 Verdict(TRUE, clock - lastActiveTime[calls'[s].userId], "cache")
           /\ ~Requested(calls'[s], "presence")
           /\ ~Requested(calls'[s], "whois")]_vars

----------------------------------------------------------------------------
(* C2 *)

\* C2 (as claimed): whenever a call resolves while the cache holds an entry for
\* its user that is fresher than maxTimeMs, the verdict is not a
\* presence-offline, who-is-offline or default verdict.  Stated for non-zero
\* entries only, so that a refutation does not rest on the falsy zero entry.
C2_NothingOverridesFreshEntry ==
    [][\A s \in Slots :
        (/\ ResolveStep(s)
         /\ HoldsFresh(lastActiveTime, calls'[s].userId, clock, calls'[s].maxTimeMs)
         /\ Truthy(lastActiveTime[calls'[s].userId]))
        => ~OverridingVerdict(calls'[s].result)]_vars

\* C2 (amended): the cache is read once per call, at the cache check that
\* follows the probe.  The call takes the cache verdict there exactly when the
\* entry it reads is present, non-zero and fresher than maxTimeMs (a write made
\* while the call waited for the probe is seen); a call waiting for presence
\* or who-is never resolves with the cache verdict, whatever is written
\* meanwhile.
C2_CacheReadOnceAtCheck ==
    [][\A s \in Slots :
        /\ CacheCheckStep(s) =>
             ((calls'[s].pc = "done" /\ calls'[s].result.branch = "cache")
              <=> (/\ HoldsFresh(lastActiveTime, calls'[s].userId, clock, calls'[s].maxTimeMs)
                   /\ Truthy(lastActiveTime[calls'[s].userId])))
        /\ calls[s].pc \in {"presence", "whois"} => calls'[s].result.branch # "cache"]_vars

\* A call is waiting for presence or who-is while the cache holds a fresh
\* non-zero entry for its user: the entry was written after the cache check.
C2_Witness ==
    \E s \in Slots :
        /\ calls[s].pc \in {"presence", "whois"}
        /\ HoldsFresh(lastActiveTime, calls[s].userId, clock, calls[s].maxTimeMs)
        /\ Truthy(lastActiveTime[calls[s].userId])

----------------------------------------------------------------------------
(* C3 *)

\* C3: when each call completes before the next starts, the probe request is
\* issued once, by the first call: no call issues it after a call completed.
C3_ProbeOnlyByFirstCall ==
    /\ probesIssued <= 1
    /\ completed => probesIssued = 1
    /\ \A s \in Slots : calls[s].pc = "probe" => ~completed

\* A later call, for the remote user, has completed without probing.
C3_Witness ==
    \E s \in Slots :
        /\ calls[s].pc = "done"
        /\ ~Requested(calls[s], "probe")
        /\ calls[s].userId = RemoteUser
        /\ probesIssued = 1

----------------------------------------------------------------------------
(* C4 *)

\* C4: once canUseWhois has left null it never changes value again.
C4_FlagImmutableOnceResolved ==
    [][canUseWhois # "null" => canUseWhois' = canUseWhois]_vars

----------------------------------------------------------------------------
(* C5 *)

\* C5: usingWhois is null before any call; once the call that probed has
\* completed it is false if the probe was rejected with 403 and true if it was
\* rejected with anything else, also when that call returned from the cache.
C5_FlagAfterFirstCall ==
    /\ probesIssued = 0 => canUseWhois = "null"
    /\ \A s \in Slots :
        (calls[s].pc = "done" /\ ProbeRejected(calls[s]))
        => canUseWhois = (IF NotAnAdmin(calls[s]) THEN "false" ELSE "true")

\* The first call was rejected with 400 and returned from the cache.
C5_Witness ==
    \E s \in Slots :
        /\ calls[s].pc = "done"
        /\ ProbeRejected(calls[s])
        /\ calls[s].probe[1].statusCode = <<400>>
        /\ calls[s].result.branch = "cache"
        /\ canUseWhois = "true"

----------------------------------------------------------------------------
(* C6 *)

\* C6 (as claimed): every probe outcome other than the 403 rejection, a probe
\* that succeeds included, resolves the flag to usable.
C6_NonRejectionIsUsable ==
    \A s \in Slots :
        (calls[s].probe # <<>> /\ ~NotAnAdmin(calls[s])) => canUseWhois = "true"

\* C6 (amended): every probe failure other than the 403 rejection resolves the
\* flag to usable; a probe that succeeds resolves it to unusable, as the 403
\* rejection does.
C6_OnlyOtherFailuresAreUsable ==
    \A s \in Slots :
        calls[s].probe # <<>> =>
            (canUseWhois = "true" <=> (ProbeRejected(calls[s]) /\ ~NotAnAdmin(calls[s])))

\* The probe succeeded and the flag is unusable.
C6_Witness ==
    \E s \in Slots :
        /\ calls[s].probe # <<>>
        /\ ~calls[s].probe[1].threw
        /\ canUseWhois = "false"

----------------------------------------------------------------------------
(* C7 *)

----------------------------------------------------------------------------
(* C8 *)

\* C8: a snapshot that is currently active or online makes the call return
\* online = true with inactiveMs = lastActiveAgo (0 when absent), whatever
\* maxTimeMs, the flag and the user, and who-is is not requested.
C8_PresenceOnline ==
    \A s \in Slots :
        LET c == calls[s] IN
        (Snapshot(c) /\ (c.presence[1].currentlyActive \/ c.presence[1].state = "online"))
        => /\ c.pc = "done"
           /\ c.result =
                 Verdict(TRUE,
                         IF c.presence[1].lastActiveAgo = <<>> THEN 0
                         ELSE c.presence[1].lastActiveAgo[1],
                         "presence")
           /\ ~Requested(c, "whois")

\* Online by state alone, staler than the threshold, for a local user with a
\* usable flag.
C8_Witness ==
    \E s \in Slots :
        LET c == calls[s] IN
        /\ c.pc = "done"
        /\ Snapshot(c)
        /\ ~c.presence[1].currentlyActive
        /\ c.presence[1].state = "online"
        /\ c.presence[1].lastActiveAgo = <<MaxAgo>>
        /\ c.maxTimeMs < MaxAgo
        /\ c.userId = LocalUser
        /\ canUseWhois = "true"
        /\ c.result.kind = "verdict"

----------------------------------------------------------------------------
(* C9 *)

\* C9: a snapshot that is neither currently active nor online and has
\* lastActiveAgo > maxTimeMs makes the call return online = false with
\* inactiveMs = lastActiveAgo, and who-is is not requested.
C9_PresenceStale ==
    \A s \in Slots :
        LET c == calls[s] IN
        (/\ Snapshot(c)
         /\ ~c.presence[1].currentlyActive
         /\ c.presence[1].state # "online"
         /\ c.presence[1].lastActiveAgo # <<>>
         /\ c.presence[1].lastActiveAgo[1] > c.maxTimeMs)
        => /\ c.pc = "done"
           /\ c.result = Verdict(FALSE, c.presence[1].lastActiveAgo[1], "presence")
           /\ ~Requested(c, "whois")

\* Stale presence for a local user with a usable flag.
C9_Witness ==
    \E s \in Slots :
        LET c == calls[s] IN
        /\ c.pc = "done"
        /\ Snapshot(c)
        /\ c.presence[1].state = "unavailable"
        /\ c.presence[1].lastActiveAgo # <<>>
        /\ c.presence[1].lastActiveAgo[1] > c.maxTimeMs
        /\ c.userId = LocalUser
        /\ canUseWhois = "true"
        /\ ~c.result.online

----------------------------------------------------------------------------
(* C10 *)

\* The call as it stands when the presence lookup is left out of it.
WithoutPresence(c) ==
    [c EXCEPT !.presence = <<>>,
              !.requests = SelectSeq(@, LAMBDA what : what # "presence")]

\* The call at its cache check, having missed the cache.
AtCacheMiss(c) ==
    [Idle EXCEPT !.userId = c.userId, !.maxTimeMs = c.maxTimeMs,
                 !.defaultArg = c.defaultArg, !.defaultOnline = c.defaultOnline, !.probe = c.probe, !.now = c.now,
                 !.requests = IF c.probe # <<>> THEN <<"probe">> ELSE <<>>]

\* What a tracker with presence lookups disabled makes of the call: from the
\* cache miss straight to the fallback (lib.ts:101, 113).
PresenceDisabledOutcome(c) ==
    LET f == Fallback(AtCacheMiss(c), canUseWhois, opts) IN
    IF c.whois = <<>> THEN f ELSE AfterWhois(f, c.whois[1])

\* C10: a failed presence request is not surfaced: the call goes on to the
\* privileged fallback and ends as the same call does on a tracker with
\* presence lookups disabled.
C10_PresenceFailureSwallowed ==
    \A s \in Slots :
        PresenceThrew(calls[s]) => WithoutPresence(calls[s]) = PresenceDisabledOutcome(calls[s])

\* The presence request failed and the call returned a who-is verdict.
C10_Witness ==
    \E s \in Slots :
        /\ calls[s].pc = "done"
        /\ PresenceThrew(calls[s])
        /\ calls[s].result.kind = "verdict"
        /\ calls[s].result.branch = "whois"

----------------------------------------------------------------------------
(* C11 *)

\* The domain of a user id: everything after its first ':'.
DomainOf(userId) == Tail(userId)

\* The call has come to the privileged fallback: the cache and presence were
\* inconclusive, or presence was disabled or failed.
ReachedFallback(c) == c.flagRead # <<>>

\* C11: a call that comes to the privileged fallback while the flag is not
\* usable, or for a user whose domain differs from the configured server
\* name, returns the effective default with inactiveMs = -1 and never sends
\* the who-is request; for a remote user this holds with a usable flag too.
C11_NoSignalGivesDefault ==
    \A s \in Slots :
        LET c == calls[s] IN
        (/\ ReachedFallback(c)
         /\ \/ c.flagRead[1] # "true"
            \/ DomainOf(c.userId) # opts.serverName)
        => /\ c.pc = "done"
           /\ c.result = Verdict(c.defaultOnline, -1, "default")
           /\ ~Requested(c, "whois")

----------------------------------------------------------------------------
(* C12 *)

\* What a cache, presence or who-is verdict says about being online, from
\* the call's clock reading, threshold, presence snapshot and who-is record
\* alone.
SignalOnline(c) ==
    CASE c.result.branch = "cache" -> TRUE
      [] c.result.branch = "presence" -> PresenceOnline(c.presence[1])
      [] c.result.branch = "whois" ->
            c.now - SortDesc(Connections(c.whois[1].devices))[1] < c.maxTimeMs

\* C12: in the default verdict, online is the defaultOnline argument whenever
\* one was supplied (true or false), whatever opts.defaultOnline is, and is
\* opts.defaultOnline only when the argument was left out; the verdicts of
\* the cache, presence and who-is branches do not depend on the argument.
C12_DefaultOnlineArgument ==
    \A s \in Slots :
        LET c == calls[s] IN
        (c.pc = "done" /\ c.result.kind = "verdict")
        => IF c.result.branch = "default"
           THEN c.result.online =
                    (IF c.defaultArg = <<>> THEN opts.defaultOnline ELSE c.defaultArg[1])
           ELSE c.result.online = SignalOnline(c)

\* A default verdict that follows the argument against the option, and one
\* taken from the option.
C12_Witness ==
    \E s \in Slots :
        /\ calls[s].pc = "done"
        /\ calls[s].result = Verdict(FALSE, -1, "default")
        /\ calls[s].defaultArg = <<FALSE>>
        /\ opts.defaultOnline

----------------------------------------------------------------------------
(* C13 *)

\* The last_seen values of all connections of all sessions of all devices.
AllLastSeen(devices) ==
    UNION { UNION { Range(devices[d][i]) : i \in DOMAIN devices[d] } : d \in DOMAIN devices }

\* The most recent of them.
MaxLastSeen(devices) ==
    CHOOSE m \in AllLastSeen(devices) : \A x \in AllLastSeen(devices) : x <= m

\* The who-is request of the call was answered with a record.
WhoisRecord(c) == c.whois # <<>> /\ ~c.whois[1].threw

\* C13: a who-is record with at least one connection gives the verdict of the
\* connection with the greatest last_seen among all connections of all
\* sessions of all devices, in whatever order the record lists them:
\* inactiveMs = now - maxLastSeen and online = (now - maxLastSeen < maxTimeMs),
\* so a most recent connection exactly maxTimeMs old gives online = false.
C13_BestConnectionDecides ==
    \A s \in Slots :
        LET c == calls[s] IN
        (WhoisRecord(c) /\ AllLastSeen(c.whois[1].devices) # {})
        => LET best == MaxLastSeen(c.whois[1].devices) IN
           /\ c.pc = "done"
           /\ c.result = Verdict(c.now - best < c.maxTimeMs, c.now - best, "whois")
           /\ (c.now - best = c.maxTimeMs => ~c.result.online)

\* The most recent connection is listed last, in a later device than an older
\* one, and is exactly maxTimeMs old.
C13_Witness ==
    \E s \in Slots :
        LET c == calls[s] IN
        /\ c.pc = "done"
        /\ WhoisRecord(c)
        /\ Len(c.whois[1].devices) = 2
        /\ c.whois[1].devices = << << <<0>> >>, << <<1>> >> >>
        /\ c.now - 1 = c.maxTimeMs
        /\ c.result = Verdict(FALSE, c.maxTimeMs, "whois")

----------------------------------------------------------------------------
(* C14 *)

\* The step in which the who-is request of call s fails.
WhoisFailureStep(s) ==
    /\ calls[s].pc = "whois"
    /\ calls'[s].whois # <<>>
    /\ calls'[s].whois[1].threw

\* C14: when the who-is request fails, the isUserOnline call fails with no
\* verdict, the cache is left as it was, and the capability flag keeps the
\* value the probe gave it, so that a later call does not probe again.
C14_WhoisFailurePropagates ==
    [][\A s \in Slots :
        WhoisFailureStep(s)
        => /\ calls'[s].pc = "done"
           /\ calls'[s].result.kind = "error"
           /\ lastActiveTime' = lastActiveTime
           /\ canUseWhois' = canUseWhois
           /\ canUseWhois = "true"]_vars

\* A call failed on its who-is request while the cache holds an entry.
C14_Witness ==
    \E s \in Slots :
        /\ calls[s].pc = "done"
        /\ calls[s].result = Failure("whois")
        /\ calls[s].whois # <<>>
        /\ calls[s].whois[1].threw
        /\ lastActiveTime # <<>>
        /\ canUseWhois = "true"

----------------------------------------------------------------------------
(* C15 *)

\* The requests of a call form a subsequence of probe, presence, who-is:
\* each at most once, in that order.
RequestOrders ==
    { <<>>, <<"probe">>, <<"presence">>, <<"whois">>,
      <<"probe", "presence">>, <<"probe", "whois">>, <<"presence", "whois">>,
      <<"probe", "presence", "whois">> }

\* C15: a call sends at most one probe, one presence and one who-is
\* request, in that order; it sends none after the branch that gave its
\* verdict; and it sends the who-is request only when the flag is usable,
\* the user is local (its domain is the configured server name), and the
\* cache and presence were inconclusive.
C15_RequestDiscipline ==
    \A s \in Slots :
        LET c == calls[s] IN
        /\ c.requests \in RequestOrders
        /\ c.result.branch = "cache" => ~Requested(c, "presence") /\ ~Requested(c, "whois")
        /\ c.result.branch = "presence" => ~Requested(c, "whois")
        /\ c.result.branch = "default" => ~Requested(c, "whois")
        /\ Requested(c, "whois")
           => /\ c.flagRead = <<"true">>
              /\ DomainOf(c.userId) = opts.serverName
              /\ c.presence # <<>> =>
                    \/ c.presence[1].threw
                    \/ ~PresenceOnline(c.presence[1]) /\ ~PresenceStale(c.presence[1], c.maxTimeMs)

----------------------------------------------------------------------------
(* C16 *)

\* C16: a verdict has inactiveMs = -1 exactly when it is the default
\* verdict; every cache, presence and who-is verdict has inactiveMs >= 0,
\* whatever timestamps setLastActiveTime wrote and whatever last_seen and
\* lastActiveAgo the responses carry.
C16_SentinelOnlyInDefault ==
    \A s \in Slots :
        LET c == calls[s] IN
        (c.pc = "done" /\ c.result.kind = "verdict")
        => /\ c.result.inactiveMs = -1 <=> c.result.branch = "default"
           /\ c.result.branch # "default" => c.result.inactiveMs >= 0

----------------------------------------------------------------------------
(* C17 *)

\* C17: the cache is last-write-wins per user: after any sequence of
\* bumpLastActiveTime and setLastActiveTime calls, the entry of each user is
\* the timestamp of the last write for that user, also when that write set a
\* timestamp earlier than the stored one; and a setLastActiveTime repeated
\* with the same arguments leaves the cache as it is.
C17_LastWriteWins ==
    /\ lastActiveTime = lastWritten
    /\ \A u \in Users, ts \in Timestamps :
          LET once == MapSet(lastActiveTime, u, ts) IN
          /\ once[u] = ts
          /\ MapSet(once, u, ts) = once
          /\ \A v \in DOMAIN lastActiveTime \ {u} : once[v] = lastActiveTime[v]

\* The last write for the local user set the timestamp 0, earlier than the
\* clock reading any bump stores; the other user's entry is a later one.
C17_Witness ==
    /\ LocalUser \in DOMAIN lastActiveTime
    /\ RemoteUser \in DOMAIN lastActiveTime
    /\ lastWritten[LocalUser] = 0
    /\ lastActiveTime[LocalUser] = 0
    /\ lastActiveTime[RemoteUser] = MaxClock

----------------------------------------------------------------------------
(* C18 *)

\* The presence request returned a snapshot that is neither currently active
\* nor "online", and whose lastActiveAgo is absent or at most maxTimeMs.
QuietSnapshot(c) ==
    /\ Snapshot(c)
    /\ ~c.presence[1].currentlyActive
    /\ c.presence[1].state # "online"
    /\ \/ c.presence[1].lastActiveAgo = <<>>
       \/ c.presence[1].lastActiveAgo[1] <= c.maxTimeMs

\* C18: a presence snapshot that is neither active nor online, with
\* lastActiveAgo absent or not above maxTimeMs (equal to it included), is
\* inconclusive: the call never returns a presence verdict and ends as the
\* same call does on a tracker with presence lookups disabled.
C18_QuietPresenceInconclusive ==
    \A s \in Slots :
        QuietSnapshot(calls[s])
        => /\ calls[s].result.branch # "presence"
           /\ WithoutPresence(calls[s]) = PresenceDisabledOutcome(calls[s])

\* A snapshot exactly maxTimeMs old, and the call ended in the fallback.
C18_Witness ==
    \E s \in Slots :
        /\ calls[s].pc = "done"
        /\ QuietSnapshot(calls[s])
        /\ calls[s].presence[1].lastActiveAgo = <<calls[s].maxTimeMs>>
        /\ calls[s].result.kind = "verdict"
        /\ calls[s].result.branch \in {"whois", "default"}

----------------------------------------------------------------------------
(* C19 *)

\* C19: a who-is record with no connection at all (no device, a device
\* without sessions, or sessions without connections) makes the
\* isUserOnline call fail with an error: it returns no verdict, and not the
\* default verdict.
C19_NoConnectionFails ==
    \A s \in Slots :
        LET c == calls[s] IN
        (WhoisRecord(c) /\ AllLastSeen(c.whois[1].devices) = {})
        => /\ c.pc = "done"
           /\ c.result.kind = "error"
           /\ c.result = Failure("whois")

\* The record lists a device whose session has no connection, and the call
\* failed.
C19_Witness ==
    \E s \in Slots :
        /\ calls[s].pc = "done"
        /\ WhoisRecord(calls[s])
        /\ calls[s].whois[1].devices = << << <<>> >> >>
        /\ calls[s].result.kind = "error"

----------------------------------------------------------------------------
(* C20 *)

\* C20: the cache check takes any stored entry for an entry, whatever its
\* value: for every timestamp written with setLastActiveTime, 0 included, a
\* following isUserOnline with now - ts < maxTimeMs returns the cache
\* verdict, online = true and inactiveMs = now - ts.
C20_AnyStoredEntryCounts ==
    [][\A s \in Slots :
        (/\ CacheCheckStep(s)
         /\ calls'[s].userId \in DOMAIN lastActiveTime
         /\ clock - lastActiveTime[calls'[s].userId] < calls'[s].maxTimeMs)
        => calls'[s].result =
               Verdict(TRUE, clock - lastActiveTime[calls'[s].userId], "cache")]_vars

----------------------------------------------------------------------------
(* C21 *)

\* C21: a user is taken for local exactly when the domain of the user id,
\* everything after its first ':', equals the configured server name, also
\* when the server name holds a ':' (a host with a port): a call that comes
\* to the privileged fallback with a usable flag sends the who-is request
\* when the domain is the server name, and returns the default verdict
\* otherwise.
C21_LocalByWholeDomain ==
    \A s \in Slots :
        LET c == calls[s] IN
        (ReachedFallback(c) /\ c.flagRead[1] = "true")
        => IF DomainOf(c.userId) = opts.serverName
           THEN Requested(c, "whois") /\ c.result.branch # "default"
           ELSE ~Requested(c, "whois") /\ c.result = Verdict(c.defaultOnline, -1, "default")

----------------------------------------------------------------------------
(* C22 *)

\* The cache with the entries of every user but userId taken out.
OwnEntry(cache, userId) == [k \in DOMAIN cache \cap {userId} |-> cache[k]]

\* The caches that hold the same for userId and anything for another user.
SameFor(cache, userId) ==
    {OwnEntry(cache, userId)}
    \cup { MapSet(OwnEntry(cache, userId), v, ts) : v \in Users \ {userId}, ts \in Timestamps }

\* C22: the cache is changed only by bumpLastActiveTime and
\* setLastActiveTime, and then in the entry of one user only; a step of
\* isUserOnline, returning or failing, and the passing of time leave it
\* unchanged; no entry is ever removed; and what a call makes of its cache
\* check is the same whatever the cache holds for the other users.
C22_CacheFrame ==
    [][/\ DOMAIN lastActiveTime \subseteq DOMAIN lastActiveTime'
       /\ \E u \in Users :
             /\ DOMAIN lastActiveTime' \subseteq DOMAIN lastActiveTime \cup {u}
             /\ \A v \in DOMAIN lastActiveTime \ {u} : lastActiveTime'[v] = lastActiveTime[v]
       /\ (calls' # calls \/ clock' # clock \/ canUseWhois' # canUseWhois)
             => lastActiveTime' = lastActiveTime
       /\ lastActiveTime' # lastActiveTime => lastWritten' # lastWritten
       /\ \A s \in Slots :
             CacheCheckStep(s)
             => \A cache \in SameFor(lastActiveTime, calls'[s].userId) :
                   calls'[s] = CacheCheck(AtCacheMiss(calls'[s]), canUseWhois', cache, clock, opts)
      ]_vars

\* A call for the local user returned the cache verdict, and the cache holds
\* an entry for the other user too, with a timestamp later than the clock
\* reading of the call.
C22_Witness ==
    \E s \in Slots :
        /\ calls[s].pc = "done"
        /\ calls[s].userId = LocalUser
        /\ calls[s].result.branch = "cache"
        /\ Users \subseteq DOMAIN lastActiveTime
        /\ lastActiveTime[RemoteUser] > calls[s].now

----------------------------------------------------------------------------
(* C23 *)

\* C23: the online flag of a verdict agrees with its measured staleness:
\* every verdict with inactiveMs other than -1, from the cache, presence or
\* the who-is lookup, has online = true exactly when inactiveMs < maxTimeMs.
C23_OnlineAgreesWithStaleness ==
    \A s \in Slots :
        LET c == calls[s] IN
        (c.pc = "done" /\ c.result.kind = "verdict" /\ c.result.inactiveMs # -1)
        => (c.result.online <=> c.result.inactiveMs < c.maxTimeMs)

\* C23, amended: every cache verdict, every who-is verdict and every presence
\* verdict with online = false has online = true exactly when
\* inactiveMs < maxTimeMs. A presence verdict with online = true, from a
\* snapshot that is currently active or in state "online", carries the
\* snapshot's lastActiveAgo (0 if absent) whatever its relation to
\* maxTimeMs.
C23_OnlineAgreesUnlessPresenceOnline ==
    \A s \in Slots :
        LET c == calls[s] IN
        (c.pc = "done" /\ c.result.kind = "verdict" /\ c.result.branch # "default")
        => IF c.result.branch = "presence" /\ c.result.online
           THEN /\ PresenceOnline(c.presence[1])
                /\ c.result.inactiveMs = AgoOrZero(c.presence[1])
           ELSE c.result.online <=> c.result.inactiveMs < c.maxTimeMs

\* Presence reported the user online with a lastActiveAgo above maxTimeMs.
C23_Witness ==
    \E s \in Slots :
        /\ calls[s].pc = "done"
        /\ calls[s].result.branch = "presence"
        /\ calls[s].result.online
        /\ calls[s].result.inactiveMs > calls[s].maxTimeMs

----------------------------------------------------------------------------
(* C24 *)

\* The call waits for the response to a request.
Waiting(c) == c.pc \in {"probe", "presence", "whois"}

\* C24: every isUserOnline call completes, with a verdict or with a failure,
\* provided every request it sends is answered; a call waits for nothing but
\* the request it sent last, sends at most three requests (probe, presence,
\* who-is, each once) and never sends one again.
C24_EveryCallCompletes ==
    /\ [](\A s \in Slots :
            /\ calls[s].requests \in RequestOrders
            /\ Waiting(calls[s]) =>
                  /\ calls[s].requests # <<>>
                  /\ calls[s].requests[Len(calls[s].requests)] = calls[s].pc)
    /\ \A s \in {1, 2} :
          Waiting(calls[s]) ~> (calls[s].pc = "done" /\ calls[s].result.kind \in {"verdict", "error"})

\* A call completed after its three requests while the other call still
\* waits for its probe.
C24_Witness ==
    \E s, t \in Slots :
        /\ calls[s].pc = "done"
        /\ calls[s].requests = <<"probe", "presence", "whois">>
        /\ calls[t].pc = "probe"

====
